---- MODULE Spec2Model ----
(***************************************************************************)
(* Model of src/src/components/Map.tsx: the Map component's state, the     *)
(* ingestion run started by the file effect (processFile), its lookups     *)
(* (fetchCityLocation), and the values derived at render (colorMap,        *)
(* filteredPeople).                                                        *)
(*                                                                         *)
(* JavaScript runs one task at a time.  A step that continues an `await`   *)
(* whose promise was settled by the platform (file read, network) is a     *)
(* task; a step that continues an `await` on a promise settled by the      *)
(* program itself is a microtask, and microtasks run before the next task. *)
(***************************************************************************)
EXTENDS Integers, Sequences, FiniteSets, TLC

VARIABLES
  file,             \* useState<File | null>: <<>> is null, <<rows>> a chosen file
  people,           \* useState<PersonWithLocation[]>
  isLoading,        \* useState(false)
  totalPeople,      \* useState(0)
  processedPeople,  \* useState(0)
  filteredYear,     \* useState<string>("")
  run,              \* one record per processFile() call, in start order
  completed,        \* history: ids of the runs in the order they ended
  map,              \* useState<LeafletMap | null>: <<>> is null
  commands,         \* the setView calls the map widget has received, in order
  clicked           \* history: the clicks on list entries, in order

vars == <<file, people, isLoading, totalPeople, processedPeople, filteredYear,
          run, completed, map, commands, clicked>>

\* the map widget's reference, what it has been told, and the click history
view == <<map, commands, clicked>>

(***************************************************************************)
(* Bounds of the model.                                                    *)
(***************************************************************************)
MaxRuns == 2        \* processFile() calls in one session
MaxLookups == 3     \* records extracted, summed over the session's runs
MaxColorLen == 22   \* length of a resolved set in SpecColor
MaxRepeats == 1     \* records of a resolved set beyond its distinct years
MaxClicks == 1      \* clicks on list entries

Runs == 1..MaxRuns

(***************************************************************************)
(* Values.                                                                 *)
(***************************************************************************)
\* The number NaN; every arithmetic and comparison below treats it apart.
NaN == -1

\* A cell text is a sequence of characters; these are the digits.
Digits == {"0", "1", "2", "3", "4", "5", "6", "7", "8", "9"}

\* s.replace(/[0-9]/g, "")
RECURSIVE StripDigits(_)
StripDigits(s) ==
  IF s = <<>> THEN <<>>
  ELSE IF Head(s) \in Digits THEN StripDigits(Tail(s))
       ELSE <<Head(s)>> \o StripDigits(Tail(s))

\* new Date(Date.parse(text)).getFullYear() on the date texts of the model
DateYear(text) ==
  CASE text = "2021-05-01" -> 2021
    [] text = "2022-03-07" -> 2022
    [] text = "2023-11-30" -> 2023
    [] OTHER -> NaN

\* !!row["Bydliště"]: the cell is there and its text is not empty
HasCity(row) == row.hasCity /\ row.city # <<>>

\* rows.map(...): one Person of one row
ToPerson(row) ==
  [city |-> StripDigits(row.city), year |-> DateYear(row.date),
   name |-> row.name, device |-> row.device]

\* rows.filter(...).map(...)
RECURSIVE Extract(_)
Extract(rows) ==
  IF rows = <<>> THEN <<>>
  ELSE IF HasCity(Head(rows)) THEN <<ToPerson(Head(rows))>> \o Extract(Tail(rows))
       ELSE Extract(Tail(rows))

(***************************************************************************)
(* .sort((a, b) => a.year - b.year)                                        *)
(***************************************************************************)
\* a.year - b.year; Array.prototype.sort reads a NaN result as +0
SortCompare(a, b) ==
  IF a.year = NaN \/ b.year = NaN THEN 0 ELSE a.year - b.year

\* ECMA-262 (Array.prototype.sort): the comparator is a consistent comparison
\* function for the elements of s
ConsistentComparator(s) ==
  \A i, j, k \in 1..Len(s) :
    /\ (SortCompare(s[i], s[j]) = 0 /\ SortCompare(s[j], s[k]) = 0)
          => SortCompare(s[i], s[k]) = 0
    /\ (SortCompare(s[i], s[j]) < 0 /\ SortCompare(s[j], s[k]) < 0)
          => SortCompare(s[i], s[k]) < 0
    /\ (SortCompare(s[i], s[j]) > 0 /\ SortCompare(s[j], s[k]) > 0)
          => SortCompare(s[i], s[k]) > 0

\* x put into the sorted s behind every element that is not greater than it
RECURSIVE InsertSorted(_, _)
InsertSorted(x, s) ==
  IF s = <<>> THEN <<x>>
  ELSE IF SortCompare(s[Len(s)], x) > 0
       THEN Append(InsertSorted(x, SubSeq(s, 1, Len(s) - 1)), s[Len(s)])
       ELSE Append(s, x)

\* the stable sort (ES2019) of s under a consistent comparator
RECURSIVE StableSort(_)
StableSort(s) ==
  IF s = <<>> THEN <<>>
  ELSE InsertSorted(s[Len(s)], StableSort(SubSeq(s, 1, Len(s) - 1)))

Orderings(s) ==
  LET n == Len(s)
      bij == {p \in [1..n -> 1..n] : \A i, j \in 1..n : p[i] = p[j] => i = j}
  IN {[i \in 1..n |-> s[p[i]]] : p \in bij}

\* What sort may leave in the array: the stable sort, or, under a comparator
\* that is not consistent (a NaN year beside two different years), an order
\* the engine chooses (ECMA-262: "implementation-defined").
SortOutcomes(s) ==
  IF ConsistentComparator(s) THEN {StableSort(s)} ELSE Orderings(s)

(***************************************************************************)
(* fetchCityLocation: the service's answers and the jitter.                *)
(* Coordinates are in millionths of a degree; a Math.random() draw is in   *)
(* thousandths (0..999 for [0, 1)).                                        *)
(***************************************************************************)
\* a jitter that leaves out the - 0.5
addRandomOffsetUncentred(location, drawLat, drawLng) ==
  [lat |-> location.lat + 5 * drawLat,
   lng |-> location.lng + 5 * drawLng]

\* addRandomOffset: (Math.random() - 0.5) * 0.005 on each axis
addRandomOffset(location, drawLat, drawLng) ==
  [lat |-> location.lat + (5 * drawLat - 2500),
   lng |-> location.lng + (5 * drawLng - 2500)]

\* response.json() for ?q=<city>&layer=city&limit=1: the service knows the
\* place "K" and answers one candidate, whose geometry.coordinates are
\* [longitude, latitude]; for any other text it answers no candidate
Photon(city) ==
  IF city = <<"K">>
  THEN [features |-> <<[geometry |-> [coordinates |-> <<17122530, 49010180>>]]>>]
  ELSE [features |-> <<>>]

\* the Math.random() draws the lookups of Spec take
Draws == {137}

\* { ...person, location }
WithLocation(person, location) ==
  [city |-> person.city, year |-> person.year, name |-> person.name,
   device |-> person.device, location |-> location]

\* a lookup that puts a record without a candidate at the origin
LocatedOrAtOrigin(person, data, drawLat, drawLng) ==
  IF data.features # <<>>
  THEN WithLocation(person,
         addRandomOffset([lat |-> data.features[1].geometry.coordinates[2],
                          lng |-> data.features[1].geometry.coordinates[1]],
                         drawLat, drawLng))
  ELSE WithLocation(person, [lat |-> 0, lng |-> 0])

\* lines 81-90: the value fetchCityLocation returns
Located(person, data, drawLat, drawLng) ==
  IF data.features # <<>>
  THEN WithLocation(person,
         addRandomOffset([lat |-> data.features[1].geometry.coordinates[2],
                          lng |-> data.features[1].geometry.coordinates[1]],
                         drawLat, drawLng))
  ELSE person

HasLocation(p) == "location" \in DOMAIN p

\* the Person a resolved record was made from
PersonOf(p) ==
  [city |-> p.city, year |-> p.year, name |-> p.name, device |-> p.device]

(***************************************************************************)
(* Values derived at each render.                                          *)
(***************************************************************************)
tailwindColorNames ==
  << "border-gray-500", "border-red-500", "border-yellow-500",
     "border-blue-500", "border-indigo-500", "border-purple-500",
     "border-pink-500", "border-amber-500", "border-lime-500",
     "border-emerald-500", "border-teal-500", "border-cyan-500",
     "border-sky-500", "border-violet-500", "border-fuchsia-500",
     "border-rose-500", "border-slate-500", "border-zinc-500",
     "border-neutral-500", "border-stone-500" >>

DigitChars == <<"0", "1", "2", "3", "4", "5", "6", "7", "8", "9">>

RECURSIVE Decimal(_)
Decimal(n) ==
  IF n < 10 THEN <<DigitChars[n + 1]>>
  ELSE Decimal(n \div 10) \o <<DigitChars[(n % 10) + 1]>>

\* the property key of a year (colorMap[item.year]): String(year)
StringOf(year) == IF year = NaN THEN <<"N", "a", "N">> ELSE Decimal(year)

DigitValue(c) == CHOOSE d \in 0..9 : DigitChars[d + 1] = c

RECURSIVE DecimalValue(_)
DecimalValue(s) ==
  IF s = <<>> THEN 0
  ELSE 10 * DecimalValue(SubSeq(s, 1, Len(s) - 1)) + DigitValue(s[Len(s)])

\* Number(text) of an option's value
Number(text) ==
  IF \A i \in 1..Len(text) : text[i] \in Digits THEN DecimalValue(text) ELSE NaN

\* a === b on numbers: NaN equals nothing
StrictEquals(a, b) == a # NaN /\ b # NaN /\ a = b

\* colorMap is a sequence of [key, color] in the order the keys were added
HasKey(colors, key) == \E i \in 1..Len(colors) : colors[i].key = key

ColorOf(colors, key) == colors[CHOOSE i \in 1..Len(colors) : colors[i].key = key].color

\* Mutant of ColorWalk: colorIndex++ sits outside the if, so it counts the
\* items walked instead of the years bound.
RECURSIVE ColorWalkCountsItems(_, _, _)
ColorWalkCountsItems(items, colors, colorIndex) ==
  IF items = <<>> THEN colors
  ELSE LET key == StringOf(Head(items).year) IN
       IF ~HasKey(colors, key)
       THEN ColorWalkCountsItems(Tail(items),
                      Append(colors, [key |-> key,
                                   color |-> tailwindColorNames[
                                     (colorIndex % Len(tailwindColorNames)) + 1]]),
                      colorIndex + 1)
       ELSE ColorWalkCountsItems(Tail(items), colors, colorIndex + 1)

\* people.forEach(...): lines 150-156, from the item list on
RECURSIVE ColorWalk(_, _, _)
ColorWalk(items, colors, colorIndex) ==
  IF items = <<>> THEN colors
  ELSE LET key == StringOf(Head(items).year) IN
       IF ~HasKey(colors, key)
       THEN ColorWalk(Tail(items),
                      Append(colors, [key |-> key,
                                   color |-> tailwindColorNames[
                                     (colorIndex % Len(tailwindColorNames)) + 1]]),
                      colorIndex + 1)
       ELSE ColorWalk(Tail(items), colors, colorIndex)

colorMap == ColorWalk(people, <<>>, 0)

\* the values of the <option>s of the year filter
YearOptions == {<<>>} \cup {colorMap[i].key : i \in 1..Len(colorMap)}

\* a filter that also keeps the later years
SameYearOrLater(person) ==
  /\ person.year # NaN
  /\ Number(filteredYear) # NaN
  /\ person.year >= Number(filteredYear)

SameYearAsFilter(person) == StrictEquals(person.year, Number(filteredYear))

filteredPeople ==
  IF filteredYear = <<>> THEN people ELSE SelectSeq(people, SameYearAsFilter)

\* the list entries (lines 205-226): one per displayed record
ListItems == filteredPeople

\* the rendered markers (lines 235-264): one per displayed record that has
\* a location, at that location
Markers == SelectSeq(filteredPeople, HasLocation)

(***************************************************************************)
(* Input files: the row tables sheet_to_json hands to processFile.         *)
(***************************************************************************)
Row(city, date, name) ==
  [hasCity |-> TRUE, city |-> city, date |-> date, name |-> name, device |-> "TV"]

\* a row with no "Bydliště" cell
RowNoCity(date, name) ==
  [hasCity |-> FALSE, city |-> <<>>, date |-> date, name |-> name, device |-> "TV"]

FileOne == << Row(<<"K", "1">>, "2021-05-01", "Jan") >>

FileTies ==
  << Row(<<"K">>, "2022-03-07", "Ada"),
     RowNoCity("2021-05-01", "Bob"),
     Row(<<"B">>, "2022-03-07", "Cyril"),
     Row(<<"K", "2">>, "2021-05-01", "Dana") >>

FileBadDate ==
  << Row(<<"K">>, "2022-03-07", "Emil"),
     Row(<<"K">>, "n/a", "Fany"),
     Row(<<"B">>, "2021-05-01", "Gita") >>

FileDigits ==
  << Row(<<"6", "9">>, "2023-11-30", "Hana"),
     Row(<<>>, "2021-05-01", "Ivo"),
     Row(<<"B">>, "2021-05-01", "Karel") >>

FileNoCity == << RowNoCity("2021-05-01", "Jana") >>

\* the files the user picks in Spec
Files == {FileOne, FileTies, FileBadDate, FileDigits, FileNoCity}

(***************************************************************************)
(* Runs.  pc: "idle" (not started), "reading" (at await file.arrayBuffer), *)
(* "fanout" (at await Promise.all), "done" (setPeople ran), "failed" (the  *)
(* catch ran), "crashed" (the read or the parse threw, lines 99-100, which *)
(* no try encloses: processFile's promise rejected).                       *)
(* lk[i], the lookup of found[i]: "pending" (at await fetch /              *)
(* await response.json), "returned" (fetchCityLocation returned, the       *)
(* mapper's continuation is queued), "done" (the mapper returned),         *)
(* "failed" (fetch or json rejected).  res[i] is what the mapper of        *)
(* found[i] resolves to.  before, overlap and overwritten are history:     *)
(* people when the run started, whether another run was in flight with it, *)
(* whether another run's fan-out start came after its own; data[i] is the  *)
(* body the lookup of found[i] received.                                   *)
(***************************************************************************)
IdleRun ==
  [pc |-> "idle", rows |-> <<>>, found |-> <<>>, lk |-> <<>>, res |-> <<>>,
   data |-> <<>>,
   before |-> <<>>, overlap |-> FALSE, overwritten |-> FALSE]

Started == Cardinality({r \in Runs : run[r].pc # "idle"})

InFlight(r) == run[r].pc \in {"reading", "fanout"}

RECURSIVE LookupsOf(_)
LookupsOf(n) == IF n = 0 THEN 0 ELSE Len(Extract(run[n].rows)) + LookupsOf(n - 1)

AllDone(r) == \A i \in 1..Len(run[r].lk) : run[r].lk[i] = "done"

SomeFailed(r) == \E i \in 1..Len(run[r].lk) : run[r].lk[i] = "failed"

\* a continuation is queued as a microtask: it runs before the next task
MicrotaskQueued ==
  \E r \in Runs :
    \/ \E i \in 1..Len(run[r].lk) : run[r].lk[i] = "returned"
    \/ run[r].pc = "fanout" /\ (AllDone(r) \/ SomeFailed(r))

Init ==
  /\ file = <<>>
  /\ people = <<>>
  /\ isLoading = FALSE
  /\ totalPeople = 0
  /\ processedPeople = 0
  /\ filteredYear = <<>>
  /\ run = [r \in Runs |-> IdleRun]
  /\ completed = <<>>
  /\ map = <<>>
  /\ commands = <<>>
  /\ clicked = <<>>

(***************************************************************************)
(* Actions.                                                                *)
(***************************************************************************)
\* Mutant of SelectFile: processFile resets the total when it starts.
SelectFileResetsTotal(f) ==
  /\ ~MicrotaskQueued
  /\ Started < MaxRuns
  /\ LookupsOf(Started) + Len(Extract(f)) <= MaxLookups
  /\ LET r == Started + 1
         others == \E q \in Runs : InFlight(q)
     IN run' = [q \in Runs |->
                  IF q = r
                  THEN [IdleRun EXCEPT !.pc = "reading", !.rows = f,
                                       !.before = people, !.overlap = others]
                  ELSE IF InFlight(q) THEN [run[q] EXCEPT !.overlap = TRUE]
                  ELSE run[q]]
  /\ file' = <<f>>
  /\ isLoading' = TRUE
  /\ totalPeople' = 0
  /\ UNCHANGED view
  /\ UNCHANGED <<people, processedPeople, filteredYear, completed>>

\* Mutant of SelectFile: processFile resets the processed counter when it
\* starts.
SelectFileResetsProcessed(f) ==
  /\ ~MicrotaskQueued
  /\ Started < MaxRuns
  /\ LookupsOf(Started) + Len(Extract(f)) <= MaxLookups
  /\ LET r == Started + 1
         others == \E q \in Runs : InFlight(q)
     IN run' = [q \in Runs |->
                  IF q = r
                  THEN [IdleRun EXCEPT !.pc = "reading", !.rows = f,
                                       !.before = people, !.overlap = others]
                  ELSE IF InFlight(q) THEN [run[q] EXCEPT !.overlap = TRUE]
                  ELSE run[q]]
  /\ file' = <<f>>
  /\ isLoading' = TRUE
  /\ processedPeople' = 0
  /\ UNCHANGED view
  /\ UNCHANGED <<people, totalPeople, filteredYear, completed>>

\* a processFile that does not raise the loading flag
SelectFileLeavesLoading(f) ==
  /\ ~MicrotaskQueued
  /\ Started < MaxRuns
  /\ LookupsOf(Started) + Len(Extract(f)) <= MaxLookups
  /\ LET r == Started + 1
         others == \E q \in Runs : InFlight(q)
     IN run' = [q \in Runs |->
                  IF q = r
                  THEN [IdleRun EXCEPT !.pc = "reading", !.rows = f,
                                       !.before = people, !.overlap = others]
                  ELSE IF InFlight(q) THEN [run[q] EXCEPT !.overlap = TRUE]
                  ELSE run[q]]
  /\ file' = <<f>>
  /\ UNCHANGED view
  /\ UNCHANGED <<people, isLoading, totalPeople, processedPeople, filteredYear,
                 completed>>

\* handleFileChange, then the effect: processFile() up to its first await
SelectFile(f) ==
  /\ ~MicrotaskQueued
  /\ Started < MaxRuns
  /\ LookupsOf(Started) + Len(Extract(f)) <= MaxLookups
  /\ LET r == Started + 1
         others == \E q \in Runs : InFlight(q)
     IN run' = [q \in Runs |->
                  IF q = r
                  THEN [IdleRun EXCEPT !.pc = "reading", !.rows = f,
                                       !.before = people, !.overlap = others]
                  ELSE IF InFlight(q) THEN [run[q] EXCEPT !.overlap = TRUE]
                  ELSE run[q]]
  /\ file' = <<f>>
  /\ isLoading' = TRUE
  /\ UNCHANGED view
  /\ UNCHANGED <<people, totalPeople, processedPeople, filteredYear, completed>>

\* processFile from the file's bytes to the call of Promise.all (lines 99-125)
ReadDone(r) ==
  /\ ~MicrotaskQueued
  /\ run[r].pc = "reading"
  /\ LET foundPeople == Extract(run[r].rows) IN
       /\ totalPeople' = Len(foundPeople)
       /\ processedPeople' = 0
       /\ run' = [q \in Runs |->
                    IF q = r
                    THEN [run[r] EXCEPT !.pc = "fanout", !.found = foundPeople,
                            !.lk = [i \in 1..Len(foundPeople) |-> "pending"],
                            !.res = foundPeople,
                            !.data = [i \in 1..Len(foundPeople) |->
                                        [features |-> <<>>]]]
                    ELSE IF run[q].pc = "fanout"
                         THEN [run[q] EXCEPT !.overwritten = TRUE]
                    ELSE run[q]]
  /\ UNCHANGED view
  /\ UNCHANGED <<file, people, isLoading, filteredYear, completed>>

\* file.arrayBuffer() rejects or read() throws (lines 99-100), outside the
\* try of line 123: processFile ends there and nothing after it runs
ReadFail(r) ==
  /\ ~MicrotaskQueued
  /\ run[r].pc = "reading"
  /\ run' = [run EXCEPT ![r].pc = "crashed"]
  /\ UNCHANGED view
  /\ UNCHANGED <<file, people, isLoading, totalPeople, processedPeople,
                 filteredYear, completed>>

\* fetchCityLocation from the response's body, data, to its return
\* (lines 78-90)
LookupAnswer(r, i, data, drawLat, drawLng) ==
  /\ ~MicrotaskQueued
  /\ run[r].pc \in {"fanout", "failed"}
  /\ i \in 1..Len(run[r].lk)
  /\ run[r].lk[i] = "pending"
  /\ processedPeople' = processedPeople + 1
  /\ run' = [run EXCEPT ![r].lk[i] = "returned",
                        ![r].data[i] = data,
                        ![r].res[i] = Located(run[r].found[i], data, drawLat, drawLng)]
  /\ UNCHANGED view
  /\ UNCHANGED <<file, people, isLoading, totalPeople, filteredYear, completed>>

\* the lookup of found[i] answered by the service
LookupReturn(r, i, drawLat, drawLng) ==
  /\ i \in 1..Len(run[r].lk)
  /\ LookupAnswer(r, i, Photon(run[r].found[i].city), drawLat, drawLng)

\* a mapper that increments the value its closure captured, the counter of
\* the render that started the effect (0), in place of the current one
LookupContinueStale(r, i) ==
  /\ i \in 1..Len(run[r].lk)
  /\ run[r].lk[i] = "returned"
  /\ processedPeople' = 0 + 1
  /\ run' = [run EXCEPT ![r].lk[i] = "done"]
  /\ UNCHANGED view
  /\ UNCHANGED <<file, people, isLoading, totalPeople, filteredYear, completed>>

\* the mapper after await fetchCityLocation(person) (lines 127-128)
LookupContinue(r, i) ==
  /\ i \in 1..Len(run[r].lk)
  /\ run[r].lk[i] = "returned"
  /\ processedPeople' = processedPeople + 1
  /\ run' = [run EXCEPT ![r].lk[i] = "done"]
  /\ UNCHANGED view
  /\ UNCHANGED <<file, people, isLoading, totalPeople, filteredYear, completed>>

\* fetch or response.json() rejects (lines 73-78): the mapper's promise rejects
LookupFail(r, i) ==
  /\ ~MicrotaskQueued
  /\ run[r].pc \in {"fanout", "failed"}
  /\ i \in 1..Len(run[r].lk)
  /\ run[r].lk[i] = "pending"
  /\ run' = [run EXCEPT ![r].lk[i] = "failed"]
  /\ UNCHANGED view
  /\ UNCHANGED <<file, people, isLoading, totalPeople, processedPeople,
                 filteredYear, completed>>

\* Mutant of RunComplete: the run commits once one mapper has returned
\* (Promise.any / Promise.race in place of Promise.all).
RunCompleteOnFirst(r) ==
  /\ run[r].pc = "fanout"
  /\ \E i \in 1..Len(run[r].lk) : run[r].lk[i] = "done"
  /\ \E filteredAndSortedPeople \in SortOutcomes(run[r].res) :
       people' = filteredAndSortedPeople
  /\ isLoading' = FALSE
  /\ run' = [run EXCEPT ![r].pc = "done"]
  /\ completed' = Append(completed, r)
  /\ UNCHANGED view
  /\ UNCHANGED <<file, totalPeople, processedPeople, filteredYear>>

\* Mutant of RunComplete: a generation token, only the run started last
\* may write people.
RunCompleteLatestOnly(r) ==
  /\ run[r].pc = "fanout"
  /\ AllDone(r)
  /\ \E filteredAndSortedPeople \in SortOutcomes(run[r].res) :
       people' = IF r = Started THEN filteredAndSortedPeople ELSE people
  /\ isLoading' = FALSE
  /\ run' = [run EXCEPT ![r].pc = "done"]
  /\ completed' = Append(completed, r)
  /\ UNCHANGED view
  /\ UNCHANGED <<file, totalPeople, processedPeople, filteredYear>>

\* Promise.all fulfilled: lines 132-136, then 140
RunComplete(r) ==
  /\ run[r].pc = "fanout"
  /\ AllDone(r)
  /\ \E filteredAndSortedPeople \in SortOutcomes(run[r].res) :
       people' = filteredAndSortedPeople
  /\ isLoading' = FALSE
  /\ run' = [run EXCEPT ![r].pc = "done"]
  /\ completed' = Append(completed, r)
  /\ UNCHANGED view
  /\ UNCHANGED <<file, totalPeople, processedPeople, filteredYear>>

\* the records of s whose lookup is in state st
RECURSIVE Settled(_, _, _)
Settled(res, lk, st) ==
  IF res = <<>> THEN <<>>
  ELSE IF Head(lk) = st THEN <<Head(res)>> \o Settled(Tail(res), Tail(lk), st)
       ELSE Settled(Tail(res), Tail(lk), st)

\* Mutant of RunCatch: the catch stores the records resolved so far
\* (Promise.allSettled with the failures filtered out).
RunCatchPartial(r) ==
  /\ run[r].pc = "fanout"
  /\ SomeFailed(r)
  /\ people' = StableSort(Settled(run[r].res, run[r].lk, "done"))
  /\ isLoading' = FALSE
  /\ run' = [run EXCEPT ![r].pc = "failed"]
  /\ completed' = Append(completed, r)
  /\ UNCHANGED view
  /\ UNCHANGED <<file, totalPeople, processedPeople, filteredYear>>

\* Mutant of RunCatch: the catch clears the displayed set.
RunCatchClears(r) ==
  /\ run[r].pc = "fanout"
  /\ SomeFailed(r)
  /\ people' = <<>>
  /\ isLoading' = FALSE
  /\ run' = [run EXCEPT ![r].pc = "failed"]
  /\ completed' = Append(completed, r)
  /\ UNCHANGED view
  /\ UNCHANGED <<file, totalPeople, processedPeople, filteredYear>>

\* Promise.all rejected: the catch (lines 137-139), then 140
RunCatch(r) ==
  /\ run[r].pc = "fanout"
  /\ SomeFailed(r)
  /\ isLoading' = FALSE
  /\ run' = [run EXCEPT ![r].pc = "failed"]
  /\ completed' = Append(completed, r)
  /\ UNCHANGED view
  /\ UNCHANGED <<file, people, totalPeople, processedPeople, filteredYear>>

\* the year filter's onChange (line 186)
SetFilter(value) ==
  /\ ~MicrotaskQueued
  /\ value \in YearOptions
  /\ value # filteredYear
  /\ filteredYear' = value
  /\ UNCHANGED view
  /\ UNCHANGED <<file, people, isLoading, totalPeople, processedPeople, run,
                 completed>>

\* ref={setMap} (line 229): the map container hands over its widget
SetMap ==
  /\ ~MicrotaskQueued
  /\ map = <<>>
  /\ map' = <<"LeafletMap">>
  /\ UNCHANGED <<file, people, isLoading, totalPeople, processedPeople,
                 filteredYear, run, completed, commands, clicked>>

\* the target of a click on the list entry of person: its location, if any
Target(person) == IF HasLocation(person) THEN <<person.location>> ELSE <<>>

\* a click handler that recentres on the origin for a record with no location
ClickItemDefaultsToOrigin(j) ==
  /\ ~MicrotaskQueued
  /\ Len(clicked) < MaxClicks
  /\ j \in 1..Len(ListItems)
  /\ LET person == ListItems[j] IN
       /\ clicked' = Append(clicked, [target |-> Target(person), map |-> map])
       /\ IF map # <<>>
          THEN commands' = Append(commands,
                 [center |-> IF HasLocation(person) THEN person.location
                             ELSE [lat |-> 0, lng |-> 0],
                  zoom |-> 14])
          ELSE commands' = commands
  /\ UNCHANGED <<file, people, isLoading, totalPeople, processedPeople,
                 filteredYear, run, completed, map>>

\* onClick of the j-th list entry (lines 212-216)
ClickItem(j) ==
  /\ ~MicrotaskQueued
  /\ Len(clicked) < MaxClicks
  /\ j \in 1..Len(ListItems)
  /\ LET person == ListItems[j] IN
       /\ clicked' = Append(clicked, [target |-> Target(person), map |-> map])
       /\ IF HasLocation(person) /\ map # <<>>
          THEN commands' = Append(commands,
                                 [center |-> person.location, zoom |-> 14])
          ELSE commands' = commands
  /\ UNCHANGED <<file, people, isLoading, totalPeople, processedPeople,
                 filteredYear, run, completed, map>>

Next ==
  \/ \E f \in Files : SelectFile(f)
  \/ \E r \in Runs : ReadDone(r)
  \/ \E r \in Runs : ReadFail(r)
  \/ \E r \in Runs, i \in 1..MaxLookups, dLat, dLng \in Draws :
       LookupReturn(r, i, dLat, dLng)
  \/ \E r \in Runs, i \in 1..MaxLookups : LookupContinue(r, i)
  \/ \E r \in Runs, i \in 1..MaxLookups : LookupFail(r, i)
  \/ \E r \in Runs : RunComplete(r)
  \/ \E r \in Runs : RunCatch(r)
  \/ \E value \in YearOptions : SetFilter(value)

Spec == Init /\ [][Next]_vars

(***************************************************************************)
(* Properties.                                                             *)
(***************************************************************************)
\* people is the whole result of run r: r ended with setPeople, every lookup
\* of r returned, and people holds, in some order, exactly the records
\* res[1..n], res[i] made from the extracted record found[i]
WholeResultOf(r) ==
  /\ run[r].pc = "done"
  /\ AllDone(r)
  /\ Len(run[r].res) = Len(run[r].found)
  /\ \A i \in 1..Len(run[r].found) : PersonOf(run[r].res[i]) = run[r].found[i]
  /\ people \in Orderings(run[r].res)

\* C1: all-or-nothing commit: in every reachable state people is the initial
\* empty list or the complete result of one run all of whose lookups
\* succeeded, one resolved record per extracted record; never a subset or a
\* mixture of a run's records.
C1_AllOrNothing == people = <<>> \/ \E r \in Runs : WholeResultOf(r)

\* C1 witness: a run has failed with some of its lookups resolved while
\* people holds the complete, non-empty result of another run.
C1_Witness ==
  /\ people # <<>>
  /\ \E r \in Runs : WholeResultOf(r)
  /\ \E q \in Runs :
       /\ run[q].pc = "failed"
       /\ \E i \in 1..Len(run[q].lk) : run[q].lk[i] = "done"

\* run r ran alone: no other run was in flight while it was, and none has
\* been started since
RanAlone(r) == ~run[r].overlap /\ r = Started

\* C2: a run in which a lookup fails never writes people: with no other run
\* in flight, people after the failed run has ended equals people before the
\* run started, whichever lookup failed and in whatever order they completed.
C2_FailedRunKeepsPeople ==
  \A r \in Runs :
    (run[r].pc = "failed" /\ RanAlone(r)) => people = run[r].before

\* C2 witness: a run that ran alone has failed after one of its lookups had
\* resolved, and a non-empty earlier result is still displayed.
C2_Witness ==
  \E r \in Runs :
    /\ run[r].pc = "failed"
    /\ RanAlone(r)
    /\ \E i \in 1..Len(run[r].lk) : run[r].lk[i] = "done"
    /\ run[r].before # <<>>
    /\ people = run[r].before

Ended(r) == run[r].pc \in {"done", "failed"}

\* C3 as stated: a run's completion step (the write of people or the logged
\* failure, then isLoading false) comes after every lookup the run started
\* has returned or failed, also in a run where a lookup fails.
C3_CompletesAfterAllSettled ==
  \A r \in Runs :
    Ended(r) => \A i \in 1..Len(run[r].lk) : run[r].lk[i] \in {"done", "failed"}

\* C3 amended: a run that writes people has ended after every one of its
\* lookups returned; a run that ended with the logged failure has ended after
\* a lookup of its own failed (its other lookups may still be pending).
C3_CompletesAfterAllReturnedOrOneFailed ==
  \A r \in Runs :
    /\ run[r].pc = "done" => AllDone(r)
    /\ run[r].pc = "failed" => SomeFailed(r)

\* C3 witness: one run has written people after its lookups
\* returned, and another run has ended in failure with a lookup still pending.
C3_Witness ==
  /\ \E r \in Runs : run[r].pc = "done" /\ Len(run[r].lk) >= 1 /\ people # <<>>
  /\ \E q \in Runs :
       /\ run[q].pc = "failed"
       /\ \E i \in 1..Len(run[q].lk) : run[q].lk[i] = "pending"

CountLookups(r, states) ==
  Cardinality({i \in 1..Len(run[r].lk) : run[r].lk[i] \in states})

\* C4: in a single run with no overlapping run the processed counter counts
\* completed lookups: one increment per lookup that completes, so it lies
\* between the lookups whose mapper has returned and the lookups whose
\* fetchCityLocation has returned, never exceeds totalPeople, and equals
\* totalPeople when the run succeeds.
C4_ProcessedCountsLookups ==
  (Started = 1 /\ run[1].pc \in {"fanout", "done"}) =>
    /\ CountLookups(1, {"done"}) <= processedPeople
    /\ processedPeople <= CountLookups(1, {"returned", "done"})
    /\ processedPeople <= totalPeople
    /\ run[1].pc = "done" => processedPeople = totalPeople

\* the place of run r in the order of completion
Place(r) == CHOOSE i \in 1..Len(completed) : completed[i] = r

\* C5: when two runs overlap and both succeed, the final value of people is
\* the result of the run that completed last, whichever was started first.
C5_LastCompleterWins ==
  \A r, q \in Runs :
    ( /\ r # q
      /\ run[r].pc = "done" /\ run[q].pc = "done"
      /\ run[r].overlap /\ run[q].overlap
      /\ Place(r) < Place(q)
      /\ \A z \in Runs : (run[z].pc = "done" /\ z # q) => Place(z) < Place(q) )
    => people \in SortOutcomes(run[q].res)

\* C5 witness: runs 1 and 2 overlapped, neither was cancelled (every lookup
\* of both returned), run 2 completed first, and people is the result of
\* run 1, which differs from that of run 2.
C5_Witness ==
  /\ MaxRuns >= 2
  /\ run[1].pc = "done" /\ run[2].pc = "done"
  /\ run[1].overlap /\ run[2].overlap
  /\ AllDone(1) /\ AllDone(2)
  /\ Place(2) < Place(1)
  /\ run[1].res # <<>> /\ run[2].res # <<>>
  /\ people \in SortOutcomes(run[1].res)
  /\ people \notin SortOutcomes(run[2].res)

\* C6 as stated: from a run's fan-out start until that run completes,
\* totalPeople is the number of the run's extracted records, in every
\* interleaving, also when another ingestion is started meanwhile.
C6_TotalFixedUntilCompletion ==
  \A r \in Runs : run[r].pc = "fanout" => totalPeople = Len(run[r].found)

\* C6 amended: from a run's fan-out start until that run completes,
\* totalPeople is the number of the run's extracted records as long as no
\* other run has reached its own fan-out start since; lookup completions and
\* the start of another ingestion leave it alone.
C6_TotalFixedUnlessOverwritten ==
  \A r \in Runs :
    (run[r].pc = "fanout" /\ ~run[r].overwritten)
      => totalPeople = Len(run[r].found)

\* C6 witness: a run is between fan-out start and completion, a lookup of it
\* has returned, another ingestion has been started meanwhile and has not
\* yet reached its fan-out start, and totalPeople is still the run's count.
C6_Witness ==
  \E r, q \in Runs :
    /\ r # q
    /\ run[r].pc = "fanout" /\ ~run[r].overwritten
    /\ run[q].pc = "reading"
    /\ \E i \in 1..Len(run[r].lk) : run[r].lk[i] = "done"
    /\ Len(run[r].found) >= 2
    /\ totalPeople = Len(run[r].found)

\* C7 as stated: between a run's fan-out start and its completion the value
\* of processedPeople never decreases, in every interleaving of lookup
\* completions and of ingestions started by the user.
C7_ProcessedNeverDecreases ==
  [][(\E r \in Runs : run[r].pc = "fanout") => processedPeople' >= processedPeople]_vars

\* C7 amended: processedPeople never decreases on a lookup completion, on a
\* run's completion or on the start of an ingestion; the one step that
\* lowers it is a run's fan-out start, which sets it to 0 (so it can drop
\* during a run only when another run reaches its fan-out start).
C7_ProcessedDropsOnlyAtFanOutStart ==
  [][processedPeople' < processedPeople
       => /\ processedPeople' = 0
          /\ \E q \in Runs : run[q].pc = "reading" /\ run'[q].pc = "fanout"]_vars

\* C7 witness: a run is between fan-out start and completion with lookups
\* counted, and an ingestion started meanwhile has left the counter as it was.
C7_Witness ==
  \E r, q \in Runs :
    /\ r # q
    /\ run[r].pc = "fanout"
    /\ run[q].pc = "reading"
    /\ processedPeople >= 2

\* a year is not after another: a NaN year is not compared
NotAfter(a, b) == a = NaN \/ b = NaN \/ a <= b

\* the place in people of the record made from person
PlaceInPeople(person) ==
  CHOOSE i \in 1..Len(people) : PersonOf(people[i]) = person

\* the run whose setPeople ran last
LastWriter(r) ==
  /\ run[r].pc = "done"
  /\ \A z \in Runs : (run[z].pc = "done" /\ z # r) => Place(z) < Place(r)

\* C8: on a successful run the stored list is a permutation of all the run's
\* resolved records, its years are non-decreasing from first to last, and
\* two records of equal year keep the order they had in the extracted input,
\* for every completion order of the lookups.
C8_SortedByYearStable ==
  \A r \in Runs :
    LastWriter(r) =>
      /\ people \in Orderings(run[r].res)
      /\ \A i, j \in 1..Len(people) :
           i < j => NotAfter(people[i].year, people[j].year)
      /\ \A i, j \in 1..Len(run[r].found) :
           (i < j /\ StrictEquals(run[r].found[i].year, run[r].found[j].year))
             => PlaceInPeople(run[r].found[i]) < PlaceInPeople(run[r].found[j])

\* C9: extraction yields at most as many records as there are input rows,
\* one per row whose city cell is there and not empty, and every record it
\* yields has a non-empty city after digit stripping.
C9_ExtractedCityNonEmpty ==
  \A r \in Runs :
    run[r].pc \in {"fanout", "done", "failed"} =>
      /\ Len(run[r].found) <= Len(run[r].rows)
      /\ Len(run[r].found) =
           Cardinality({i \in 1..Len(run[r].rows) :
                          run[r].rows[i].hasCity /\ run[r].rows[i].city # <<>>})
      /\ \A i \in 1..Len(run[r].found) : run[r].found[i].city # <<>>

(***************************************************************************)
(* SpecColor: colorMap over resolved sets of up to MaxColorLen records.    *)
(* The set grows a record at a time; a record's year is the greatest year  *)
(* so far, the year after it, or NaN (what a sorted list with unparsable   *)
(* dates in it looks like).                                                *)
(***************************************************************************)
YearsOf(items) == {items[i].year : i \in 1..Len(items)}

NextYears(items) ==
  LET valid == YearsOf(items) \ {NaN} IN
  IF valid = {} THEN {NaN, 2001}
  ELSE LET last == CHOOSE y \in valid : \A z \in valid : z <= y
       IN {NaN, last, last + 1}

ResolvedSetGrows(year) ==
  /\ Len(people) < MaxColorLen
  /\ year \in NextYears(people)
  /\ Len(people) + 1 - Cardinality(YearsOf(people) \cup {year}) <= MaxRepeats
  /\ people' = Append(people, [city |-> <<"K">>, year |-> year,
                               name |-> "Jan", device |-> "TV"])
  /\ UNCHANGED view
  /\ UNCHANGED <<file, isLoading, totalPeople, processedPeople, filteredYear,
                 run, completed>>

NextColor == \E year \in {NaN} \cup (2001..(2001 + MaxColorLen)) : ResolvedSetGrows(year)

SpecColor == Init /\ [][NextColor]_vars

\* the distinct years of items[1..n] in the order of their first occurrence
RECURSIVE FirstSeen(_, _)
FirstSeen(items, n) ==
  IF n = 0 THEN <<>>
  ELSE IF \E j \in 1..(n - 1) : items[j].year = items[n].year
       THEN FirstSeen(items, n - 1)
       ELSE Append(FirstSeen(items, n - 1), items[n].year)

\* C10: in every resolved set all records of one year get the same palette
\* entry, the k-th distinct year in list order (k from 0) gets
\* palette[k mod 20], and two distinct years get different entries whenever
\* there are at most 20 distinct years.
C10_ColorByFirstSeenYear ==
  LET order == FirstSeen(people, Len(people))
      colors == colorMap
      keyOf == [i \in 1..Len(people) |-> StringOf(people[i].year)]
      colorOfRecord == [i \in 1..Len(people) |->
                          IF HasKey(colors, keyOf[i]) THEN ColorOf(colors, keyOf[i])
                          ELSE "undefined"]
      colorOfYear == [k \in 1..Len(order) |-> ColorOf(colors, StringOf(order[k]))]
  IN /\ \A i \in 1..Len(people) : HasKey(colors, keyOf[i])
     /\ \A i, j \in 1..Len(people) :
          people[i].year = people[j].year => colorOfRecord[i] = colorOfRecord[j]
     /\ \A k \in 1..Len(order) :
          colorOfYear[k] = tailwindColorNames[((k - 1) % 20) + 1]
     /\ Len(order) <= 20 =>
          \A a, b \in 1..Len(order) : a # b => colorOfYear[a] # colorOfYear[b]

\* C10 witness: a resolved set of 20 distinct years, one of them NaN, with a
\* year that occurs twice: every palette entry is bound, none twice.
C10_Witness ==
  /\ Cardinality(YearsOf(people)) = 20
  /\ NaN \in YearsOf(people)
  /\ Len(people) > 20
  /\ Len(colorMap) = 20

\* C10, second reachable case: the palette wraps, a 21st distinct year gets
\* the first entry again.
C10_WrapReached ==
  /\ Cardinality(YearsOf(people)) = 21
  /\ colorMap[21].color = colorMap[1].color

(***************************************************************************)
(* The year filter as a view of people (lines 160-163, 184-187).           *)
(***************************************************************************)
\* the year a record carries is the one the option text y spells; an
\* unparsable year equals no value (===)
YearIs(person, y) == person.year # NaN /\ StringOf(person.year) = y

RecordsOfFilterYear == SelectSeq(people, LAMBDA person : YearIs(person, filteredYear))

\* C11: with the empty filter the displayed list is people itself, with a
\* filter value y it is exactly the records of people whose year equals y,
\* in their order in people, and a step that changes the filter leaves
\* people as it was.
C11_FilterIsPureView ==
  /\ [](filteredYear = <<>> => filteredPeople = people)
  /\ [](filteredYear # <<>> => filteredPeople = RecordsOfFilterYear)
  /\ [][filteredYear' # filteredYear => people' = people]_vars

\* a filter value is selected that keeps two of three records
C11_Witness ==
  /\ filteredYear = StringOf(2022)
  /\ Len(people) = 3
  /\ Len(filteredPeople) = 2
  /\ filteredPeople[1].name = "Ada" /\ filteredPeople[2].name = "Cyril"

(***************************************************************************)
(* Records the service has no candidate for (lines 81-90, 235-264).        *)
(***************************************************************************)
NoCandidate(person) == Photon(person.city).features = <<>>

RECURSIVE OnlyLocated(_)
OnlyLocated(items) ==
  IF items = <<>> THEN <<>>
  ELSE (IF "location" \in DOMAIN Head(items) THEN <<Head(items)>> ELSE <<>>)
       \o OnlyLocated(Tail(items))

\* C12: a lookup that returns no candidate is not a failure (a run fails
\* only on a rejected lookup, and completes once all have returned); the
\* record of such a lookup is in people with no location after its run wrote
\* people, and is a list entry under the empty filter; the markers are
\* exactly the displayed records that have a location, one each, in order,
\* so a record without a location has no marker.
C12_NoCandidateKeptWithoutMarker ==
  /\ \A r \in Runs :
       /\ run[r].pc = "failed" => SomeFailed(r)
       /\ (run[r].pc = "fanout" /\ AllDone(r)) => ENABLED RunComplete(r)
       /\ LastWriter(r) =>
            \A i \in 1..Len(run[r].found) :
              NoCandidate(run[r].found[i]) =>
                /\ \E j \in 1..Len(people) : people[j] = run[r].found[i]
                /\ filteredYear = <<>> =>
                     \E j \in 1..Len(ListItems) : ListItems[j] = run[r].found[i]
  /\ Markers = OnlyLocated(filteredPeople)
  /\ \A k \in 1..Len(Markers) : HasLocation(Markers[k])
  /\ \A j \in 1..Len(filteredPeople) :
       ~HasLocation(filteredPeople[j]) =>
         \A k \in 1..Len(Markers) : PersonOf(Markers[k]) # filteredPeople[j]

\* a run wrote three records, one of them without a candidate: three list
\* entries, two markers
C12_Witness ==
  /\ \E r \in Runs :
       /\ LastWriter(r)
       /\ \E i \in 1..Len(run[r].found) : NoCandidate(run[r].found[i])
  /\ filteredYear = <<>>
  /\ Len(ListItems) = 3
  /\ Len(Markers) = 2

(***************************************************************************)
(* Records with an unparsable sale date (lines 113-118, 147-163, 188-193). *)
(***************************************************************************)
InvalidYear(person) == person.year = NaN

\* the records of an unparsable date are stored, and one colour-map key,
\* which no record of a valid year has, stands for them and is an option
InvalidYearKeyed ==
  /\ \A r \in Runs :
       LastWriter(r) =>
         \A i \in 1..Len(run[r].found) :
           InvalidYear(run[r].found[i]) =>
             \E j \in 1..Len(people) : PersonOf(people[j]) = run[r].found[i]
  /\ (\E j \in 1..Len(people) : InvalidYear(people[j])) =>
       /\ Cardinality({k \in 1..Len(colorMap) : colorMap[k].key = StringOf(NaN)}) = 1
       /\ \A j \in 1..Len(people) :
            ~InvalidYear(people[j]) => StringOf(people[j].year) # StringOf(NaN)
       /\ StringOf(NaN) \in YearOptions

\* C13: records with an unparsable sale date are kept and form their own
\* group: they share one colour-map key distinct from every valid year's,
\* the key is one option of the year filter, and with that option selected
\* the displayed list is exactly those records.
C13_InvalidYearGroupSelectable ==
  /\ InvalidYearKeyed
  /\ filteredYear = StringOf(NaN) =>
       filteredPeople = SelectSeq(people, InvalidYear)

(***************************************************************************)
(* The jitter over its inputs: one run of one record, the service's answer *)
(* and the two Math.random() draws taken from their ranges.                *)
(***************************************************************************)
\* Math.random() in thousandths of [0, 1)
RandomDraws == 0..999

\* each axis takes every draw, beside the other axis at either end
DrawPairs ==
  {<<d, e>> : d \in RandomDraws, e \in {0, 999}}
    \cup {<<e, d>> : d \in RandomDraws, e \in {0, 999}}

\* [longitude, latitude] of a candidate: the corners of the globe, the
\* origin and the place the service knows
CandidateCoordinates ==
  { <<-180000000, -90000000>>, <<180000000, 90000000>>, <<0, 0>>,
    <<17122530, 49010180>> }

Answers ==
  {[features |-> <<>>]}
    \cup {[features |-> <<[geometry |-> [coordinates |-> c]]>>] :
            c \in CandidateCoordinates}

NextJitter ==
  \/ Started = 0 /\ SelectFile(FileOne)
  \/ \E r \in Runs : ReadDone(r)
  \/ \E r \in Runs, i \in 1..MaxLookups :
       /\ i \in 1..Len(run[r].lk)
       /\ run[r].lk[i] = "pending"
       /\ \E data \in Answers, draws \in DrawPairs :
            LookupAnswer(r, i, data, draws[1], draws[2])
  \/ \E r \in Runs, i \in 1..MaxLookups : LookupContinue(r, i)
  \/ \E r \in Runs : RunComplete(r)

SpecJitter == Init /\ [][NextJitter]_vars

Distance(a, b) == IF a >= b THEN a - b ELSE b - a

\* C14: for every candidate coordinate and every pair of draws, the latitude
\* and the longitude of the location a lookup returns are each within
\* 0.0025 degrees (2500 millionths) of the candidate's latitude and
\* longitude.
C14_JitterWithinBound ==
  \A r \in Runs : \A i \in 1..Len(run[r].lk) :
    (run[r].lk[i] \in {"returned", "done"} /\ run[r].data[i].features # <<>>) =>
      LET coordinates == run[r].data[i].features[1].geometry.coordinates
          location == run[r].res[i].location
      IN /\ Distance(location.lat, coordinates[2]) <= 2500
         /\ Distance(location.lng, coordinates[1]) <= 2500

\* a lookup returned with the lowest draw on one axis and the highest on the
\* other: 0.0025 degrees south and 0.002495 degrees east of the candidate
C14_Witness ==
  \E r \in Runs : \E i \in 1..Len(run[r].lk) :
    /\ run[r].lk[i] = "returned"
    /\ run[r].data[i].features # <<>>
    /\ LET coordinates == run[r].data[i].features[1].geometry.coordinates
           location == run[r].res[i].location
       IN /\ location.lat = coordinates[2] - 2500
          /\ location.lng = coordinates[1] + 2495

(***************************************************************************)
(* The increments of one run (lines 80, 121-128).                          *)
(***************************************************************************)
\* the increments the callbacks of run r have issued: one in
\* fetchCityLocation when a lookup returns, one in the mapper after it
IncrementsIssued(r) ==
  CountLookups(r, {"returned", "done"}) + CountLookups(r, {"done"})

\* C15: while one run is the only run started, from its fan-out start on
\* and for every order in which its lookups complete, processedPeople is 0
\* plus the number of increments its callbacks have issued; so it is at the
\* end of the run.
C15_NoIncrementLost ==
  (Started = 1 /\ run[1].pc \in {"fanout", "done", "failed"}) =>
    processedPeople = 0 + IncrementsIssued(1)

\* the only run has completed with three lookups, six increments issued
C15_Witness ==
  /\ Started = 1
  /\ run[1].pc = "done"
  /\ Len(run[1].lk) = 3
  /\ IncrementsIssued(1) = 6
  /\ processedPeople = 6

(***************************************************************************)
(* Clicks on list entries (lines 212-216, 229): one ingestion run, the     *)
(* year filter, the map container's reference and the clicks.              *)
(***************************************************************************)
NextView ==
  \/ Started = 0 /\ \E f \in Files : SelectFile(f)
  \/ \E r \in Runs : ReadDone(r)
  \/ \E r \in Runs : ReadFail(r)
  \/ \E r \in Runs, i \in 1..MaxLookups, dLat, dLng \in Draws :
       LookupReturn(r, i, dLat, dLng)
  \/ \E r \in Runs, i \in 1..MaxLookups : LookupContinue(r, i)
  \/ \E r \in Runs, i \in 1..MaxLookups : LookupFail(r, i)
  \/ \E r \in Runs : RunComplete(r)
  \/ \E r \in Runs : RunCatch(r)
  \/ \E value \in YearOptions : SetFilter(value)
  \/ SetMap
  \/ \E j \in 1..MaxLookups : ClickItem(j)

SpecView == Init /\ [][NextView]_vars

\* the setView calls a history of clicks asks for: one, at the entry's
\* location and zoom 14, per click on an entry that has a location while the
\* map widget is there
RECURSIVE CommandsOf(_)
CommandsOf(clicks) ==
  IF clicks = <<>> THEN <<>>
  ELSE LET click == Head(clicks) IN
         (IF click.target # <<>> /\ click.map # <<>>
          THEN <<[center |-> click.target[1], zoom |-> 14]>>
          ELSE <<>>)
         \o CommandsOf(Tail(clicks))

\* C16: the map has received exactly one setView(location, 14) per click on
\* an entry whose record has a location (made while the map widget is
\* there) and nothing for any other click; a click leaves people, the
\* filter, the counters, the loading flag, the file and the runs unchanged,
\* and a click without a location or without the widget leaves the map's
\* commands unchanged too; nothing but a click sends the map a command.
C16_ClickRecentresOnce ==
  /\ [](commands = CommandsOf(clicked))
  /\ [][clicked' # clicked =>
          /\ UNCHANGED <<file, people, isLoading, totalPeople, processedPeople,
                         filteredYear, run, completed, map>>
          /\ LET click == clicked'[Len(clicked')] IN
               (click.target = <<>> \/ click.map = <<>>) => commands' = commands]_vars
  /\ [][commands' # commands => clicked' # clicked]_vars

\* the map has one command, from a click on an entry with a location
C16_Witness ==
  /\ Len(clicked) = 1
  /\ clicked[1].target # <<>>
  /\ clicked[1].map # <<>>
  /\ commands = <<[center |-> clicked[1].target[1], zoom |-> 14]>>

\* an entry without a location was clicked with the widget there: no command
C16_NoLocationClicked ==
  /\ Len(clicked) = 1
  /\ clicked[1].target = <<>>
  /\ clicked[1].map # <<>>
  /\ commands = <<>>

\* an entry with a location was clicked before the widget was there
C16_NoMapClicked ==
  /\ Len(clicked) = 1
  /\ clicked[1].target # <<>>
  /\ clicked[1].map = <<>>
  /\ commands = <<>>

(***************************************************************************)
(* The loading flag (lines 93-98, 137-141, 196-204).                       *)
(***************************************************************************)
\* C17 as stated: whenever a run has started and has not completed,
\* isLoading is true, overlapping runs included.
C17_LoadingCoversEveryRun ==
  \A r \in Runs : InFlight(r) => isLoading

\* C17: whenever a run is in flight and every run that has completed did so
\* without another run in flight beside it, isLoading is true.
C17_LoadingCoversRunUnlessOverlapEnded ==
  \A r \in Runs :
    (InFlight(r) /\ \A q \in Runs : Ended(q) => ~run[q].overlap) => isLoading

\* a second run is in flight after a first one completed alone
C17_Witness ==
  /\ Started = 2
  /\ Ended(1) /\ ~run[1].overlap
  /\ run[2].pc = "fanout"
  /\ isLoading

(***************************************************************************)
(* The end of loading (lines 93-141), under fairness: a read settles,      *)
(* every lookup settles (returns or fails), and the continuations the      *)
(* program has queued run.  The user's choices are not forced.             *)
(***************************************************************************)
Fairness ==
  /\ \A r \in Runs : WF_vars(ReadDone(r) \/ ReadFail(r))
  /\ \A r \in Runs, i \in 1..MaxLookups :
       WF_vars(LookupFail(r, i)
                 \/ \E dLat, dLng \in Draws : LookupReturn(r, i, dLat, dLng))
  /\ \A r \in Runs, i \in 1..MaxLookups : WF_vars(LookupContinue(r, i))
  /\ \A r \in Runs : WF_vars(RunComplete(r))
  /\ \A r \in Runs : WF_vars(RunCatch(r))

SpecLive == Spec /\ Fairness

\* the only run waits on a lookup and none of its lookups has failed
OnlyRunWaits ==
  /\ Started = 1
  /\ run[1].pc = "fanout"
  /\ \E i \in 1..Len(run[1].lk) : run[1].lk[i] = "pending"
  /\ ~SomeFailed(1)

\* C18: when every lookup of every started run settles, loading ends:
\* whenever isLoading is true it is false some time later, and once false it
\* becomes true again only by a new ingestion, whether the runs succeeded or
\* failed; and while the only run waits on a lookup and none has failed,
\* isLoading is true and people is what it was when the run started.
C18_LoadingAlwaysEnds ==
  /\ isLoading ~> ~isLoading
  /\ [][(~isLoading /\ isLoading') => Started' = Started + 1]_vars
  /\ [](OnlyRunWaits => (isLoading /\ people = run[1].before))

\* the parts of C18 that hold: a run past its read ends, loading is off when
\* no run is in flight or crashed, comes back on only by a new ingestion,
\* and stays on while the only run waits
LoadingEndsAfterRead ==
  /\ \A r \in Runs : (run[r].pc = "fanout") ~> Ended(r)
  /\ []((\A r \in Runs : run[r].pc \notin {"reading", "fanout", "crashed"})
          => ~isLoading)
  /\ [][(~isLoading /\ isLoading') => Started' = Started + 1]_vars
  /\ [](OnlyRunWaits => (isLoading /\ people = run[1].before))

(***************************************************************************)
(* The filter against the stored list (lines 59, 136, 160-163, 184-194).   *)
(***************************************************************************)
\* C19: filteredYear is empty or one of the year keys of the current people,
\* and a non-empty filter never leaves the displayed list empty.
C19_FilterRefersToCurrentData ==
  /\ filteredYear \in YearOptions
  /\ filteredYear # <<>> => filteredPeople # <<>>

====
